---- MODULE Spec2Model ----
(***************************************************************************)
(* A model of the selector evaluator of src/src/index.ts: the combinator   *)
(* collectors, the attribute matchers, compound / complex selector         *)
(* matching, the preorder traversal and the two queries.                   *)
(*                                                                         *)
(* Strings are sequences of one-character strings, so that split,          *)
(* startsWith, endsWith, includes and toUpperCase are computed character   *)
(* by character.  Nodes are the numbers 1..MaxNodes, Null is the absent    *)
(* node.  An optional value (string | null, T | undefined) is a sequence   *)
(* of length 0 or 1.                                                       *)
(***************************************************************************)
EXTENDS Integers, Sequences, FiniteSets, TLC

\* ---------------------------------------------------------------- bounds
MaxNodes == 4
MaxTail == 2
MaxCand == 2
MaxStrLen == 3
MaxSub == 2

VARIABLES
    children,      \* operations.getChildren: node -> sequence of nodes
    parent,        \* operations.getParent: node -> node or Null
    prev,          \* operations.getPreviouSibling: node -> node or Null
    tagName,       \* operations.getTagName: node -> string
    idOf,          \* operations.getID: node -> string
    classes,       \* operations.hasClass: node -> set of class names
    attrs,         \* operations.getAttribute: node -> optional string (one attribute name)
    call,          \* the last completed call: its name, arguments and outcome
    deduplicator,  \* the WeakSet of the collector call in progress / last finished
    pc,            \* position of the running query (small-step specification)
    frames,        \* the traversal generator's stack: <<node, next child index>>
    cur,           \* the node the traversal yielded last
    si,            \* matchSelectors: index of the complex selector being tried
    ti,            \* matchComplexSelector: the loop variable i, 1-based
    candidates,    \* matchComplexSelector: the candidates array
    ci,            \* collector: index of the candidate the for-loop is at
    t,             \* collector: the variable t of the while loops
    acc,           \* collector: the array being built (ancestors, parents, siblings)
    matchList      \* querySelectorAll: the matchList array

vars == <<children, parent, prev, tagName, idOf, classes, attrs, call, deduplicator,
          pc, frames, cur, si, ti, candidates, ci, t, acc, matchList>>

treeVars == <<children, parent, prev>>
dataVars == <<tagName, idOf, classes, attrs>>
stepVars == <<pc, frames, cur, si, ti, candidates, ci, t, acc, matchList>>

\* ---------------------------------------------------------------- values
Null == 0
Nodes == 1..MaxNodes

\* JavaScript Array.prototype.includes on a sequence
ArrayIncludes(arr, x) == \E i \in 1..Len(arr) : arr[i] = x

\* all sequences over S of length 0..n
SeqUpTo(S, n) == UNION {[1..k -> S] : k \in 0..n}

\* ---------------------------------------------------------------- strings
Space == " "

\* String.prototype.toUpperCase, on the letters the model uses
UpperChar(c) ==
    CASE c = "a" -> "A"
      [] c = "b" -> "B"
      [] OTHER -> c

ToUpperCase(s) == [i \in 1..Len(s) |-> UpperChar(s[i])]

\* String.prototype.startsWith
StartsWith(value, expected) ==
    /\ Len(expected) <= Len(value)
    /\ SubSeq(value, 1, Len(expected)) = expected

\* String.prototype.endsWith
EndsWith(value, expected) ==
    /\ Len(expected) <= Len(value)
    /\ SubSeq(value, Len(value) - Len(expected) + 1, Len(value)) = expected

\* String.prototype.includes
StrIncludes(value, expected) ==
    \E i \in 1..(Len(value) - Len(expected) + 1) :
        SubSeq(value, i, i + Len(expected) - 1) = expected

\* value.split(/ +/): the separator is a maximal run of U+0020; a leading or
\* trailing run leaves an empty first or last piece, and "" splits into [""].
\* SplitFrom scans value from position i with the piece collected so far.
RECURSIVE SplitFrom(_, _, _)
SplitFrom(value, i, piece) ==
    IF i > Len(value) THEN <<piece>>
    ELSE IF value[i] = Space
         THEN IF i > 1 /\ value[i - 1] = Space
              THEN SplitFrom(value, i + 1, piece)
              ELSE <<piece>> \o SplitFrom(value, i + 1, <<>>)
         ELSE SplitFrom(value, i + 1, Append(piece, value[i]))

SplitSpaces(value) == SplitFrom(value, 1, <<>>)

\* ---------------------------------------------------------------- matchers
MatchEquals(value, expected) == value = expected

MatchIncludes(value, expected) == ArrayIncludes(SplitSpaces(value), expected)

MatchDash(value, expected) ==
    value = expected \/ StartsWith(value, expected \o <<"-">>)

MatchPrefix(value, expected) == StartsWith(value, expected)

MatchSuffix(value, expected) == EndsWith(value, expected)

MatchSubstring(value, expected) == StrIncludes(value, expected)

MatcherNames == {"=", "~=", "|=", "^=", "$=", "*="}

\* matchers[matcher](value, expected)
matchers(matcher, value, expected) ==
    CASE matcher = "=" -> MatchEquals(value, expected)
      [] matcher = "~=" -> MatchIncludes(value, expected)
      [] matcher = "|=" -> MatchDash(value, expected)
      [] matcher = "^=" -> MatchPrefix(value, expected)
      [] matcher = "$=" -> MatchSuffix(value, expected)
      [] matcher = "*=" -> MatchSubstring(value, expected)

\* ---------------------------------------------------------------- adapter
\* The Operations<T> record bound at create(): each capability reads the tree.
getTagName(node) == tagName[node]
getID(node) == idOf[node]
hasClass(node, className) == className \in classes[node]
getParent(node) == parent[node]
getChildren(node) == children[node]
getAttribute(node, name) == attrs[node][name]
getPreviouSibling(node) == prev[node]

\* ---------------------------------------------------------------- collectors
\* mutant: one deduplicator shared by all collector calls
StaleWeakSet == deduplicator

\* new WeakSet(): the deduplicator every collector call allocates
NewWeakSet == {}

\* mutant: the push is not guarded by the deduplicator
PushAlways(c, x) == [arr |-> Append(c.arr, x), set |-> c.set \cup {x}]

\* if (!deduplicator.has(x)) { arr.push(x); deduplicator.add(x); }
PushUnique(c, x) ==
    IF x \notin c.set THEN [arr |-> Append(c.arr, x), set |-> c.set \cup {x}] ELSE c

\* mutant: only the direct parent is collected
ParentOnce(tt, c) == IF tt /= Null THEN PushUnique(c, tt) ELSE c

\* mutant: the walk stops below the top of the document
RECURSIVE ParentWhileBelowTop(_, _)
ParentWhileBelowTop(tt, c) ==
    IF tt = Null \/ getParent(tt) = Null THEN c
    ELSE ParentWhileBelowTop(getParent(tt), PushUnique(c, tt))

\* while (t) { push; t = operations.getParent(t); }
RECURSIVE ParentWhile(_, _)
ParentWhile(tt, c) ==
    IF tt = Null THEN c ELSE ParentWhile(getParent(tt), PushUnique(c, tt))

\* while (t) { push; t = operations.getPreviouSibling(t); }
RECURSIVE SiblingWhile(_, _)
SiblingWhile(tt, c) ==
    IF tt = Null THEN c ELSE SiblingWhile(getPreviouSibling(tt), PushUnique(c, tt))

\* if (x) { push }
PushIfPresent(x, c) == IF x /= Null THEN PushUnique(c, x) ELSE c

\* the body of `for (const node of nodes)` of each collector
CollectorBody(kind, node, c) ==
    CASE kind = "Descendant" -> ParentWhile(getParent(node), c)
      [] kind = "Child" -> PushIfPresent(getParent(node), c)
      [] kind = "NextSibling" -> PushIfPresent(getPreviouSibling(node), c)
      [] kind = "SubsequentSibling" -> SiblingWhile(getPreviouSibling(node), c)

RECURSIVE CollectorFor(_, _, _)
CollectorFor(kind, nodes, c) ==
    IF nodes = <<>> THEN c
    ELSE CollectorFor(kind, Tail(nodes), CollectorBody(kind, Head(nodes), c))

CombinatorKind == {"Descendant", "Child", "NextSibling", "SubsequentSibling", "Column"}
Supported == CombinatorKind \ {"Column"}

\* mutant: the Column collector returns no candidates instead of throwing
CollectorsColumnEmpty(combinator, nodes) ==
    IF combinator = "Column"
    THEN [threw |-> FALSE, arr |-> <<>>, set |-> {}]
    ELSE LET c == CollectorFor(combinator, nodes, [arr |-> <<>>, set |-> NewWeakSet])
         IN  [threw |-> FALSE, arr |-> c.arr, set |-> c.set]

\* collectors[combinator](nodes): the array returned, or the throw of Column;
\* set is the deduplicator as the call leaves it
collectors(combinator, nodes) ==
    IF combinator = "Column"
    THEN [threw |-> TRUE, arr |-> <<>>, set |-> {}]
    ELSE LET c == CollectorFor(combinator, nodes, [arr |-> <<>>, set |-> NewWeakSet])
         IN  [threw |-> FALSE, arr |-> c.arr, set |-> c.set]

\* ---------------------------------------------------------------- compound
Undefined == <<>>

matchSubClassSelector(node, selector) ==
    CASE selector.kind = "ID" -> getID(node) = selector.value
      [] selector.kind = "Class" -> hasClass(node, selector.value)
      [] selector.kind = "Attribute" ->
            LET value == getAttribute(node, selector.name)
            IN  IF selector.match = Undefined
                THEN value /= <<>>
                ELSE value /= <<>>
                     /\ matchers(selector.match[1].matcher, value[1],
                                 selector.match[1].value.value)
      [] selector.kind = "PseudoClass" -> TRUE
      [] selector.kind = "PseudoElement" -> FALSE

\* for (const selector of list) if (!matchSubClassSelector(root, selector)) return false
RECURSIVE EverySubClass(_, _)
EverySubClass(root, list) ==
    IF list = <<>> THEN TRUE
    ELSE IF ~matchSubClassSelector(root, Head(list)) THEN FALSE
    ELSE EverySubClass(root, Tail(list))

\* mutant: the tag names are compared as written
TypeMismatchCaseSensitive(root, type) ==
    type /= Undefined /\ getTagName(root) /= type[1].name

TypeMismatch(root, type) ==
    type /= Undefined /\ ToUpperCase(getTagName(root)) /= ToUpperCase(type[1].name)

matchCompoundSelector(root, compound) ==
    IF TypeMismatch(root, compound.type) THEN FALSE
    ELSE IF ~EverySubClass(root, compound.subclasses) THEN FALSE
    ELSE IF ~EverySubClass(root, compound.pseudoes) THEN FALSE
    ELSE TRUE

\* ---------------------------------------------------------------- complex
Returned(v) == [threw |-> FALSE, value |-> v]
Thrown(v) == [threw |-> TRUE, value |-> v]

\* candidates.filter(t => matchCompoundSelector(t, selector))
FilterCandidates(cands, selector) ==
    SelectSeq(cands, LAMBDA x : matchCompoundSelector(x, selector))

\* the for loop of matchComplexSelector at index i (1-based), then the head
RECURSIVE ComplexLoop(_, _, _)
ComplexLoop(cands, complex, i) ==
    IF i < 1
    THEN Returned(Len(FilterCandidates(cands, complex.head)) > 0)
    ELSE LET combinator == complex.tail[i][1]
             selector == complex.tail[i][2]
             filtered == FilterCandidates(cands, selector)
         IN  IF Len(filtered) = 0 THEN Returned(FALSE)
             ELSE LET c == collectors(combinator, filtered)
                  IN  IF c.threw THEN Thrown(FALSE)
                      ELSE ComplexLoop(c.arr, complex, i - 1)

matchComplexSelector(root, complex) == ComplexLoop(<<root>>, complex, Len(complex.tail))

\* mutant: only the first member of the list is tried
MatchFirstSelectorOnly(root, selectors) ==
    IF selectors = <<>> THEN Returned(FALSE)
    ELSE matchComplexSelector(root, Head(selectors))

RECURSIVE matchSelectors(_, _)
matchSelectors(root, selectors) ==
    IF selectors = <<>> THEN Returned(FALSE)
    ELSE LET m == matchComplexSelector(root, Head(selectors))
         IN  IF m.threw THEN Thrown(FALSE)
             ELSE IF m.value THEN Returned(TRUE)
             ELSE matchSelectors(root, Tail(selectors))

\* ---------------------------------------------------------------- traversal
RECURSIVE preorderDepthFirstTraverse(_, _)
RECURSIVE TraverseChildren(_)
TraverseChildren(kids) ==
    IF kids = <<>> THEN <<>>
    ELSE preorderDepthFirstTraverse(Head(kids), TRUE) \o TraverseChildren(Tail(kids))

\* mutant: a node is yielded after its descendants
PostorderTraverse(node, includeRoot) ==
    TraverseChildren(getChildren(node)) \o (IF includeRoot THEN <<node>> ELSE <<>>)

preorderDepthFirstTraverse(node, includeRoot) ==
    (IF includeRoot THEN <<node>> ELSE <<>>) \o TraverseChildren(getChildren(node))

\* ---------------------------------------------------------------- queries
RECURSIVE QuerySelectorLoop(_, _)
QuerySelectorLoop(nodes, parsedSelectors) ==
    IF nodes = <<>> THEN Returned(Null)
    ELSE LET m == matchSelectors(Head(nodes), parsedSelectors)
         IN  IF m.threw THEN Thrown(Null)
             ELSE IF m.value THEN Returned(Head(nodes))
             ELSE QuerySelectorLoop(Tail(nodes), parsedSelectors)

\* mutant: the traversal of querySelector starts with root itself
QuerySelectorFromRoot(root, parsedSelectors) ==
    QuerySelectorLoop(preorderDepthFirstTraverse(root, TRUE), parsedSelectors)

querySelector(root, parsedSelectors) ==
    QuerySelectorLoop(preorderDepthFirstTraverse(root, FALSE), parsedSelectors)

RECURSIVE QuerySelectorAllLoop(_, _, _)
QuerySelectorAllLoop(nodes, parsedSelectors, list) ==
    IF nodes = <<>> THEN Returned(list)
    ELSE LET m == matchSelectors(Head(nodes), parsedSelectors)
         IN  IF m.threw THEN Thrown(<<>>)
             ELSE QuerySelectorAllLoop(Tail(nodes), parsedSelectors,
                                       IF m.value THEN Append(list, Head(nodes)) ELSE list)

querySelectorAll(root, parsedSelectors) ==
    QuerySelectorAllLoop(preorderDepthFirstTraverse(root, FALSE), parsedSelectors, <<>>)

\* ---------------------------------------------------------------- trees
\* A tree on Nodes: node 1 is the top, every other node hangs under a smaller
\* one, and siblings stand in increasing order.  The three structural
\* capabilities of the adapter are read off the same tree.
ParentVectors ==
    {p \in [Nodes -> Nodes \cup {Null}] :
        p[1] = Null /\ \A n \in Nodes \ {1} : p[n] /= Null /\ p[n] < n}

RECURSIVE Ascending(_)
Ascending(S) ==
    IF S = {} THEN <<>>
    ELSE LET m == CHOOSE x \in S : \A y \in S : x <= y
         IN  <<m>> \o Ascending(S \ {m})

ChildrenOf(p) == [n \in Nodes |-> Ascending({m \in Nodes : p[m] = n})]

PrevOf(p) ==
    [n \in Nodes |->
        LET before == {m \in Nodes : m < n /\ p[m] = p[n] /\ p[n] /= Null}
        IN  IF before = {} THEN Null ELSE CHOOSE m \in before : \A y \in before : y <= m]

Tags == {<<"a">>, <<"b">>}
AttrNames == {"p", "q"}

InitTree ==
    \E p \in ParentVectors :
        /\ parent = p
        /\ children = ChildrenOf(p)
        /\ prev = PrevOf(p)

DefaultData ==
    /\ idOf = [n \in Nodes |-> "x"]
    /\ classes = [n \in Nodes |-> {}]
    /\ attrs = [n \in Nodes |-> [a \in AttrNames |-> <<>>]]

IdleStep ==
    /\ pc = "idle"
    /\ frames = <<>>
    /\ cur = Null
    /\ si = 0
    /\ ti = 0
    /\ candidates = <<>>
    /\ ci = 0
    /\ t = Null
    /\ acc = <<>>
    /\ matchList = <<>>

NoCall == [op |-> "none"]

\* ---------------------------------------------------------------- selectors
\* The parsed selector list S.parse returns: a sequence of complex selectors,
\* each a head compound and a tail of <<combinator, compound>> pairs.
TypeCompound(name) ==
    [type |-> <<[name |-> name]>>, subclasses |-> <<>>, pseudoes |-> <<>>]

QueryCompounds == {TypeCompound(<<"a">>), TypeCompound(<<"B">>)}

ComplexSelectors(n) ==
    {[head |-> h, tail |-> tl] :
        h \in QueryCompounds, tl \in SeqUpTo(CombinatorKind \X QueryCompounds, n)}

Combinators(selectors) ==
    IF Len(selectors) = 1 THEN Len(selectors[1].tail)
    ELSE Len(selectors[1].tail) + Len(selectors[2].tail)

SelectorLists ==
    {<<c>> : c \in ComplexSelectors(MaxTail)}
    \cup {l \in {<<a, b>> : a \in ComplexSelectors(MaxTail - 1),
                            b \in ComplexSelectors(MaxTail - 1)} :
            Combinators(l) < MaxTail}

\* ---------------------------------------------------------------- Spec
\* Queries over a well-formed tree: each action is one call of the evaluator.
\* The evaluator keeps nothing between calls, so a behaviour is one call on
\* an arbitrary tree and input.
Init ==
    /\ InitTree
    /\ tagName \in [Nodes -> Tags]
    /\ DefaultData
    /\ call = NoCall
    /\ deduplicator = {}
    /\ IdleStep

CallQuerySelector ==
    /\ call = NoCall
    /\ \E root \in Nodes, selectors \in SelectorLists :
            /\ call' = [op |-> "querySelector", root |-> root, selectors |-> selectors,
                        out |-> querySelector(root, selectors)]
            /\ UNCHANGED <<treeVars, dataVars, deduplicator, stepVars>>

CallQuerySelectorAll ==
    /\ call = NoCall
    /\ \E root \in Nodes, selectors \in SelectorLists :
            /\ call' = [op |-> "querySelectorAll", root |-> root, selectors |-> selectors,
                        out |-> querySelectorAll(root, selectors)]
            /\ UNCHANGED <<treeVars, dataVars, deduplicator, stepVars>>

CallMatchComplexSelector ==
    /\ call = NoCall
    /\ \E node \in Nodes, complex \in ComplexSelectors(MaxTail) :
            /\ call' = [op |-> "matchComplexSelector", root |-> node, complex |-> complex,
                        out |-> matchComplexSelector(node, complex)]
            /\ UNCHANGED <<treeVars, dataVars, deduplicator, stepVars>>

Next == CallQuerySelector \/ CallQuerySelectorAll \/ CallMatchComplexSelector

Spec == Init /\ [][Next]_vars

\* ---------------------------------------------------------------- tree relations
\* The structural relations of the document, stated on getChildren alone.
IsChildOf(c, p) == ArrayIncludes(children[p], c)

\* nodes reachable from p by one or more child steps
RECURSIVE Below(_, _)
Below(frontier, seen) ==
    LET next == {c \in Nodes : \E p \in frontier : IsChildOf(c, p)} \ seen
    IN  IF next = {} THEN seen ELSE Below(next, seen \cup next)

StrictDescendants(p) == Below({p}, {})

IsStrictAncestor(a, n) == n \in StrictDescendants(a)

\* a stands immediately before n among the children of one parent
IsImmediatelyBefore(a, n) ==
    \E p \in Nodes : \E j \in 1..(Len(children[p]) - 1) :
        children[p][j] = a /\ children[p][j + 1] = n

\* a stands anywhere before n among the children of one parent
IsBeforeSibling(a, n) ==
    \E p \in Nodes : \E j, k \in 1..Len(children[p]) :
        j < k /\ children[p][j] = a /\ children[p][k] = n

\* the relation a combinator states between the left node a and the right node n
Related(combinator, a, n) ==
    CASE combinator = "Descendant" -> IsStrictAncestor(a, n)
      [] combinator = "Child" -> IsChildOf(n, a)
      [] combinator = "NextSibling" -> IsImmediatelyBefore(a, n)
      [] combinator = "SubsequentSibling" -> IsBeforeSibling(a, n)
      [] OTHER -> FALSE

\* x comes before y in preorder: x is above y, or x's branch leaves their
\* common ancestor through an earlier child than y's branch
InOrAbove(x, n) == x = n \/ IsStrictAncestor(x, n)

PreorderBefore(x, y) ==
    \/ IsStrictAncestor(x, y)
    \/ \E p \in Nodes : \E j, k \in 1..Len(children[p]) :
          j < k /\ InOrAbove(children[p][j], x) /\ InOrAbove(children[p][k], y)

\* compound number i of a complex selector C0 k1 C1 ... km Cm
CompoundAt(complex, i) == IF i = 0 THEN complex.head ELSE complex.tail[i][2]

\* a chain x(from)..x(m) with x(m) = n, every x(i) matching its compound and
\* every combinator after position `from` relating x(i-1) to x(i)
ChainIn(n, complex, from, scope) ==
    LET m == Len(complex.tail)
    IN  \E x \in [from..m -> scope \cup {n}] :
            /\ x[m] = n
            /\ \A i \in from..m : matchCompoundSelector(x[i], CompoundAt(complex, i))
            /\ \A i \in (from + 1)..m : Related(complex.tail[i][1], x[i - 1], x[i])

ChainFrom(n, complex, from) == ChainIn(n, complex, from, Nodes)

\* the chain of the whole selector; a chain never passes a Column combinator
ChainMatches(n, complex) == ChainFrom(n, complex, 0)

OnlySupported(complex) ==
    \A i \in 1..Len(complex.tail) : complex.tail[i][1] \in Supported

\* evaluating the selector at n calls the Column collector: the chain reaches
\* the right-hand side of a Column combinator
ColumnReached(n, complex) ==
    \E i \in 1..Len(complex.tail) :
        complex.tail[i][1] = "Column" /\ ChainFrom(n, complex, i)

\* a sequence without repetition
NoDuplicates(arr) == \A i, j \in 1..Len(arr) : i /= j => arr[i] /= arr[j]

Elements(arr) == {arr[i] : i \in 1..Len(arr)}

FirstOrNull(arr) == IF arr = <<>> THEN Null ELSE arr[1]

\* the nodes a query visits
Visited == StrictDescendants(call.root)

\* evaluating the list at n raises: some member reaches its Column combinator
\* and no member written before it matches n
ThrowsAt(n, selectors) ==
    \E k \in 1..Len(selectors) :
        /\ ColumnReached(n, selectors[k])
        /\ \A j \in 1..(k - 1) : ~ChainMatches(n, selectors[j])

\* evaluating the list at n returns true
MatchesAt(n, selectors) ==
    \E k \in 1..Len(selectors) :
        /\ ChainMatches(n, selectors[k])
        /\ \A j \in 1..(k - 1) : ~ColumnReached(n, selectors[j])

\* res lists the set S in preorder, each node once
ListsInPreorder(res, S) ==
    /\ Elements(res) = S
    /\ NoDuplicates(res)
    /\ \A i, j \in 1..Len(res) : i < j => PreorderBefore(res[i], res[j])

\* ---------------------------------------------------------------- C1
\* C1: a querySelectorAll call that raises no error returns the strict
\* descendants of root that the selector list matches, in preorder, each once,
\* never root itself, and the empty sequence when nothing matches.
C1_QuerySelectorAllFiltersPreorder ==
    (call.op = "querySelectorAll" /\ ~call.out.threw) =>
        LET matched == {n \in StrictDescendants(call.root) :
                            matchSelectors(n, call.selectors).value}
        IN  /\ ListsInPreorder(call.out.value, matched)
            /\ call.root \notin Elements(call.out.value)
            /\ matched = {} => call.out.value = <<>>

\* C1 witness: two matches whose preorder is not their numeric order, and a visited node left out
C1_Witness ==
    /\ call.op = "querySelectorAll"
    /\ ~call.out.threw
    /\ Len(call.out.value) >= 2
    /\ call.out.value[1] > call.out.value[2]
    /\ \E n \in Visited : n \notin Elements(call.out.value)

\* ---------------------------------------------------------------- C2
\* C2 as claimed: querySelector agrees with querySelectorAll on the same input
\* in every outcome, a raised error included.
C2_SameOutcomeEvenOnError ==
    call.op = "querySelector" =>
        LET all == querySelectorAll(call.root, call.selectors)
        IN  /\ call.out.threw = all.threw
            /\ ~all.threw => call.out.value = FirstOrNull(all.value)

\* C2 amended: whenever querySelectorAll returns, querySelector returns its
\* first element, and null exactly when the sequence is empty; querySelector
\* raises only if querySelectorAll raises (it may return a node found before
\* the node at which querySelectorAll raises).
C2_FirstOfAllWhenAllReturns ==
    call.op = "querySelector" =>
        LET all == querySelectorAll(call.root, call.selectors)
        IN  /\ ~all.threw =>
                /\ ~call.out.threw
                /\ call.out.value = FirstOrNull(all.value)
                /\ (call.out.value = Null) <=> (all.value = <<>>)
            /\ call.out.threw => all.threw

\* C2 witness: querySelector returns a node where querySelectorAll returns several
C2_Witness ==
    /\ call.op = "querySelector"
    /\ ~call.out.threw
    /\ call.out.value /= Null
    /\ LET all == querySelectorAll(call.root, call.selectors)
       IN  ~all.threw /\ Len(all.value) >= 2 /\ all.value[1] > all.value[2]

\* ---------------------------------------------------------------- C3
\* C3 as claimed: if at some visited node the chain of a member reaches a
\* Column combinator, querySelectorAll raises, whatever the other members of
\* the list do at that node.
C3_ColumnAlwaysRaises ==
    call.op = "querySelectorAll" =>
        ((\E n \in Visited : \E k \in 1..Len(call.selectors) :
              ColumnReached(n, call.selectors[k]))
         => call.out.threw)

\* C3 amended: the error is raised exactly when the Column collector is
\* called, that is at a visited node where a member reaches its Column
\* combinator and no member written before it matches the node (a member
\* written after it never prevents the error); querySelector moreover stops
\* at the first node the list matches.  A raised query returns nothing.
C3_ColumnRaisesUnlessMasked ==
    /\ call.op = "querySelectorAll" =>
          (call.out.threw <=> \E n \in Visited : ThrowsAt(n, call.selectors))
    /\ call.op = "querySelector" =>
          (call.out.threw <=>
              \E n \in Visited :
                  /\ ThrowsAt(n, call.selectors)
                  /\ \A m \in Visited :
                        PreorderBefore(m, n) => ~MatchesAt(m, call.selectors))
    /\ (call.op = "querySelectorAll" /\ call.out.threw) => call.out.value = <<>>
    /\ (call.op = "querySelector" /\ call.out.threw) => call.out.value = Null

\* C3 witness: the query raises at a node that a member written after the Column member matches
C3_Witness ==
    /\ call.op = "querySelectorAll"
    /\ call.out.threw
    /\ Len(call.selectors) = 2
    /\ \E n \in Visited :
          ColumnReached(n, call.selectors[1]) /\ ChainMatches(n, call.selectors[2])

\* ---------------------------------------------------------------- C4
\* C4: for a complex selector built from the four supported combinators,
\* matchComplexSelector(n, C) is true exactly when a chain x0..xm exists with
\* xm = n, every xi matching compound Ci and every pair (x(i-1), xi) in the
\* relation of combinator ki.
C4_MatchComplexIsChainExistence ==
    (call.op = "matchComplexSelector" /\ OnlySupported(call.complex)) =>
        /\ ~call.out.threw
        /\ call.out.value = ChainMatches(call.root, call.complex)

\* C4 witness: `a B` matches a node whose parent is no `a`: the descendant combinator
\* succeeds where the child combinator fails
C4_Witness ==
    /\ call.op = "matchComplexSelector"
    /\ call.complex = [head |-> TypeCompound(<<"a">>),
                       tail |-> <<<<"Descendant", TypeCompound(<<"B">>)>>>>]
    /\ call.out.value
    /\ ~matchComplexSelector(call.root,
            [head |-> TypeCompound(<<"a">>),
             tail |-> <<<<"Child", TypeCompound(<<"B">>)>>>>]).value

\* ---------------------------------------------------------------- C5
\* C5 as claimed: for every pair A, B the outcome of "A, B" is the preorder
\* union of the outcomes of "A" and of "B".
C5_UnionForEveryPair ==
    (call.op = "querySelectorAll" /\ Len(call.selectors) = 2) =>
        LET a == querySelectorAll(call.root, <<call.selectors[1]>>)
            b == querySelectorAll(call.root, <<call.selectors[2]>>)
        IN  \/ /\ ~call.out.threw /\ ~a.threw /\ ~b.threw
               /\ ListsInPreorder(call.out.value, Elements(a.value) \cup Elements(b.value))
            \/ call.out.threw /\ (a.threw \/ b.threw)

\* C5 amended: for every pair A, B such that neither querySelectorAll(root, A)
\* nor querySelectorAll(root, B) raises, querySelectorAll(root, "A, B") returns
\* the union of the two results in preorder, a node matched by both once.
C5_UnionWhenNeitherRaises ==
    (call.op = "querySelectorAll" /\ Len(call.selectors) = 2) =>
        LET a == querySelectorAll(call.root, <<call.selectors[1]>>)
            b == querySelectorAll(call.root, <<call.selectors[2]>>)
        IN  (~a.threw /\ ~b.threw) =>
                /\ ~call.out.threw
                /\ ListsInPreorder(call.out.value, Elements(a.value) \cup Elements(b.value))

\* C5 witness: a node matched by both members, listed once, and a node matched by one alone
C5_Witness ==
    /\ call.op = "querySelectorAll"
    /\ Len(call.selectors) = 2
    /\ ~call.out.threw
    /\ LET a == querySelectorAll(call.root, <<call.selectors[1]>>)
           b == querySelectorAll(call.root, <<call.selectors[2]>>)
       IN  /\ ~a.threw /\ ~b.threw
           /\ Elements(a.value) \cap Elements(b.value) /= {}
           /\ Elements(a.value) /= Elements(b.value)

\* ---------------------------------------------------------------- C10
\* C10: a strict descendant n of root is in querySelectorAll(root, S) exactly
\* when S matches n over the whole tree: the nodes of the chain left of n may
\* be root, above root or outside root's subtree.
C10_MatchingNotScopedToRoot ==
    (call.op = "querySelectorAll"
        /\ \A k \in 1..Len(call.selectors) : OnlySupported(call.selectors[k])) =>
        /\ ~call.out.threw
        /\ \A n \in Nodes :
              n \in Elements(call.out.value) <=>
                  /\ n \in StrictDescendants(call.root)
                  /\ \E k \in 1..Len(call.selectors) : ChainMatches(n, call.selectors[k])

\* C10 witness: a returned node none of whose chains stays inside root's subtree, root included
C10_Witness ==
    /\ call.op = "querySelectorAll"
    /\ ~call.out.threw
    /\ \E n \in Elements(call.out.value) :
          \A k \in 1..Len(call.selectors) :
              ~ChainIn(n, call.selectors[k], 0, StrictDescendants(call.root) \cup {call.root})

\* ---------------------------------------------------------------- SpecAttr
\* The attribute matcher registry applied to arbitrary strings.
Chars == {"a", " ", "\t", "\n", "-"}
Strings == SeqUpTo(Chars, MaxStrLen)

\* a document of one parent and its children, for the calls that read no structure
FlatTree ==
    LET p == [n \in Nodes |-> IF n = 1 THEN Null ELSE 1]
    IN  parent = p /\ children = ChildrenOf(p) /\ prev = PrevOf(p)

InitAttr ==
    /\ FlatTree
    /\ tagName = [n \in Nodes |-> <<"a">>]
    /\ DefaultData
    /\ call = NoCall
    /\ deduplicator = {}
    /\ IdleStep

CallMatcher ==
    /\ call = NoCall
    /\ \E matcher \in MatcherNames, value \in Strings, expected \in Strings :
            /\ call' = [op |-> "matcher", matcher |-> matcher, value |-> value,
                        expected |-> expected, out |-> matchers(matcher, value, expected)]
            /\ UNCHANGED <<treeVars, dataVars, deduplicator, stepVars>>

NextAttr == CallMatcher

SpecAttr == InitAttr /\ [][NextAttr]_vars

\* ---------------------------------------------------------------- C6
Whitespace == {" ", "\t", "\n"}

\* w is one of the words of value read as a whitespace-separated list: a
\* non-empty run of non-whitespace characters bounded by whitespace or the ends
IsWordOf(w, value) ==
    /\ w /= <<>>
    /\ \A i \in 1..Len(w) : w[i] \notin Whitespace
    /\ \E i \in 1..Len(value) :
          /\ i + Len(w) - 1 <= Len(value)
          /\ SubSeq(value, i, i + Len(w) - 1) = w
          /\ i = 1 \/ value[i - 1] \in Whitespace
          /\ i + Len(w) - 1 = Len(value) \/ value[i + Len(w)] \in Whitespace

\* C6: `~=` holds for (value, expected) exactly when value, read as a
\* whitespace-separated list of words, contains the word expected.
C6_IncludesIsWordMembership ==
    (call.op = "matcher" /\ call.matcher = "~=") =>
        call.out = IsWordOf(call.expected, call.value)

\* ---------------------------------------------------------------- SpecCompound
\* matchCompoundSelector on one node whose tag, id, classes and attribute vary.
NodeTags == {<<"a">>, <<"A">>, <<"b">>}
NodeIds == {"x", "y"}
NodeClasses == {{}, {"x"}, {"x", "y"}}
NodeAttrValues == {<<>>, << <<>> >>, << <<"a", " ", "b">> >>}

InitCompound ==
    /\ FlatTree
    /\ \E tag \in NodeTags : tagName = [n \in Nodes |-> IF n = 1 THEN tag ELSE <<"b">>]
    /\ \E id \in NodeIds : idOf = [n \in Nodes |-> IF n = 1 THEN id ELSE "x"]
    /\ \E cl \in NodeClasses : classes = [n \in Nodes |-> IF n = 1 THEN cl ELSE {}]
    /\ \E v \in NodeAttrValues :
          attrs = [n \in Nodes |->
                      [a \in AttrNames |-> IF n = 1 /\ a = "p" THEN v ELSE <<>>]]
    /\ call = NoCall
    /\ deduplicator = {}
    /\ IdleStep

AttributeSelector(name, match) == [kind |-> "Attribute", name |-> name, match |-> match]
AttributeMatch(matcher, expected) ==
    <<[matcher |-> matcher, value |-> [value |-> expected]]>>

SubClassSelectors ==
    {[kind |-> "ID", value |-> v] : v \in NodeIds}
    \cup {[kind |-> "Class", value |-> v] : v \in {"x", "y"}}
    \cup {AttributeSelector(n, Undefined) : n \in AttrNames}
    \cup {AttributeSelector("p", AttributeMatch("~=", <<"b">>)),
          AttributeSelector("p", AttributeMatch("^=", <<>>)),
          AttributeSelector("q", AttributeMatch("*=", <<>>))}
    \cup {[kind |-> "PseudoClass", name |-> "hover"]}

PseudoSelectors ==
    {[kind |-> "PseudoClass", name |-> "hover"], [kind |-> "PseudoElement", name |-> "before"]}

TypeSelectors == {Undefined, <<[name |-> <<"A">>]>>, <<[name |-> <<"b">>]>>}

CompoundSelectors ==
    {c \in [type : TypeSelectors,
            subclasses : SeqUpTo(SubClassSelectors, MaxSub),
            pseudoes : SeqUpTo(PseudoSelectors, MaxSub)] :
        Len(c.subclasses) + Len(c.pseudoes) <= MaxSub}

CallMatchCompoundSelector ==
    /\ call = NoCall
    /\ \E node \in Nodes, compound \in CompoundSelectors :
            /\ call' = [op |-> "matchCompoundSelector", root |-> node, compound |-> compound,
                        out |-> matchCompoundSelector(node, compound)]
            /\ UNCHANGED <<treeVars, dataVars, deduplicator, stepVars>>

NextCompound == CallMatchCompoundSelector

SpecCompound == InitCompound /\ [][NextCompound]_vars

\* ---------------------------------------------------------------- C7
\* two letters equal up to case
SameLetter(c, d) == c = d \/ {c, d} = {"a", "A"} \/ {c, d} = {"b", "B"}

EqualIgnoringCase(x, y) ==
    Len(x) = Len(y) /\ \A i \in 1..Len(x) : SameLetter(x[i], y[i])

\* the constraint one simple selector puts on a node, stated on the adapter's data
Holds(node, selector) ==
    CASE selector.kind = "ID" -> idOf[node] = selector.value
      [] selector.kind = "Class" -> selector.value \in classes[node]
      [] selector.kind = "Attribute" ->
            /\ attrs[node][selector.name] /= <<>>
            /\ selector.match /= Undefined =>
                  matchers(selector.match[1].matcher, attrs[node][selector.name][1],
                           selector.match[1].value.value)
      [] selector.kind = "PseudoClass" -> TRUE
      [] selector.kind = "PseudoElement" -> FALSE

AllConstraints(compound) == compound.subclasses \o compound.pseudoes

\* C7: matchCompoundSelector is true exactly when every constraint present
\* holds: the type equals the tag ignoring case, and every ID, class,
\* attribute and pseudo constraint holds; so the compound without constraints
\* matches every node and a compound with a pseudo-element matches none.
C7_CompoundIsConjunction ==
    call.op = "matchCompoundSelector" =>
        LET c == call.compound
            all == AllConstraints(c)
        IN  /\ call.out =
                  (/\ c.type /= Undefined => EqualIgnoringCase(tagName[call.root], c.type[1].name)
                   /\ \A i \in 1..Len(all) : Holds(call.root, all[i]))
            /\ (c.type = Undefined /\ all = <<>>) => call.out
            /\ (\E i \in 1..Len(all) : all[i].kind = "PseudoElement") => ~call.out

\* C7 witness: a match through a type written in another case than the tag, an attribute
\* present with the empty string, and a pseudo-class
C7_Witness ==
    /\ call.op = "matchCompoundSelector"
    /\ call.out
    /\ call.compound.type /= Undefined
    /\ tagName[call.root] /= call.compound.type[1].name
    /\ attrs[call.root]["p"] = << <<>> >>
    /\ call.compound.subclasses = <<AttributeSelector("p", Undefined)>>
    /\ call.compound.pseudoes = <<[kind |-> "PseudoClass", name |-> "hover"]>>

\* ---------------------------------------------------------------- SpecCollect
\* The combinator collectors called, one call after another, on arbitrary
\* candidate arrays over a well-formed tree.
InitCollect ==
    /\ InitTree
    /\ tagName = [n \in Nodes |-> <<"a">>]
    /\ DefaultData
    /\ call = NoCall
    /\ deduplicator = {}
    /\ IdleStep

CallCollector ==
    \E kind \in Supported, nodes \in SeqUpTo(Nodes, MaxCand) :
        LET r == collectors(kind, nodes)
        IN  /\ call' = [op |-> "collector", kind |-> kind, nodes |-> nodes,
                        out |-> [threw |-> r.threw, value |-> r.arr]]
            /\ deduplicator' = r.set
            /\ UNCHANGED <<treeVars, dataVars, stepVars>>

\* collectors[Column]() takes no candidates
CallColumnCollector ==
    LET r == collectors("Column", <<>>)
    IN  /\ call' = [op |-> "collector", kind |-> "Column", nodes |-> <<>>,
                    out |-> [threw |-> r.threw, value |-> r.arr]]
        /\ deduplicator' = r.set
        /\ UNCHANGED <<treeVars, dataVars, stepVars>>

NextCollect == CallCollector \/ CallColumnCollector

SpecCollect == InitCollect /\ [][NextCollect]_vars

\* ---------------------------------------------------------------- C8
\* the nodes a supported combinator relates, on the left, to some candidate
LeftOf(kind, nodes) ==
    {a \in Nodes : \E i \in 1..Len(nodes) : Related(kind, a, nodes[i])}

\* C8: every call of a supported collector returns each node at most once and
\* returns exactly the union over the candidates of their strict ancestors,
\* parent, immediately preceding sibling, or preceding siblings, whatever
\* calls were made before.
C8_CollectorsReturnDedupedUnion ==
    (call.op = "collector" /\ call.kind \in Supported) =>
        /\ ~call.out.threw
        /\ NoDuplicates(call.out.value)
        /\ Elements(call.out.value) = LeftOf(call.kind, call.nodes)

\* C8 witness: two candidates under one parent with two ancestors, all of them shared,
\* collected after an earlier call left its deduplicator behind
C8_Witness ==
    /\ call.op = "collector"
    /\ call.kind = "Descendant"
    /\ Len(call.nodes) = 2
    /\ call.nodes[1] /= call.nodes[2]
    /\ parent[call.nodes[1]] = parent[call.nodes[2]]
    /\ Len(call.out.value) = 2
    /\ deduplicator = Elements(call.out.value)

\* ---------------------------------------------------------------- SpecStep
\* One query executed statement by statement: the traversal generator, the
\* loops of matchSelectors and matchComplexSelector and the loops of the
\* collectors each advance one iteration per step.  getChildren and
\* getPreviouSibling describe a finite tree; getParent is that tree's parent
\* relation or differs from it in one link, which may close a cycle.
ParentMaps(p) ==
    {p} \cup {[p EXCEPT ![n] = m] : n \in Nodes, m \in Nodes}

InitStep ==
    /\ \E p \in ParentVectors :
          /\ children = ChildrenOf(p)
          /\ prev = PrevOf(p)
          /\ parent \in ParentMaps(p)
    /\ tagName = [n \in Nodes |-> IF n = 2 THEN <<"b">> ELSE <<"a">>]
    /\ DefaultData
    /\ call = NoCall
    /\ deduplicator = {}
    /\ IdleStep

StepSelectorLists ==
    {<<c>> : c \in ComplexSelectors(MaxTail - 1)}
    \cup {<<a, b>> : a \in ComplexSelectors(0), b \in ComplexSelectors(0)}

\* querySelector / querySelectorAll: parse, matchList = [], create the generator
StartQuery ==
    /\ pc = "idle"
    /\ \E op \in {"querySelector", "querySelectorAll"}, root \in Nodes,
          selectors \in StepSelectorLists :
            /\ call' = [op |-> op, root |-> root, selectors |-> selectors]
            /\ frames' = <<[node |-> root, idx |-> 1]>>
    /\ matchList' = <<>>
    /\ pc' = "traverse"
    /\ UNCHANGED <<treeVars, dataVars, deduplicator, cur, si, ti, candidates, ci, t, acc>>

Top == frames[Len(frames)]

\* the innermost generator yields its next child and a generator for it is entered
TraverseYield ==
    /\ pc = "traverse"
    /\ frames /= <<>>
    /\ Top.idx <= Len(getChildren(Top.node))
    /\ LET child == getChildren(Top.node)[Top.idx]
       IN  /\ frames' = Append([frames EXCEPT ![Len(frames)].idx = @ + 1],
                               [node |-> child, idx |-> 1])
           /\ cur' = child
    /\ si' = 1
    /\ pc' = "selectors"
    /\ UNCHANGED <<treeVars, dataVars, call, deduplicator, ti, candidates, ci, t, acc, matchList>>

\* the innermost generator has no child left and returns to the one above
TraversePop ==
    /\ pc = "traverse"
    /\ frames /= <<>>
    /\ Top.idx > Len(getChildren(Top.node))
    /\ frames' = SubSeq(frames, 1, Len(frames) - 1)
    /\ UNCHANGED <<treeVars, dataVars, call, deduplicator, pc, cur, si, ti, candidates,
                   ci, t, acc, matchList>>

\* the traversal is exhausted: return null / return matchList
TraverseDone ==
    /\ pc = "traverse"
    /\ frames = <<>>
    /\ pc' = "returned"
    /\ call' = [op |-> call.op, root |-> call.root, selectors |-> call.selectors,
                out |-> IF call.op = "querySelector" THEN Returned(Null)
                        ELSE Returned(matchList)]
    /\ UNCHANGED <<treeVars, dataVars, deduplicator, frames, cur, si, ti, candidates,
                   ci, t, acc, matchList>>

\* matchSelectors: the next member of the list is tried on cur
SelectorsNext ==
    /\ pc = "selectors"
    /\ si <= Len(call.selectors)
    /\ candidates' = <<cur>>
    /\ ti' = Len(call.selectors[si].tail)
    /\ pc' = "complex"
    /\ UNCHANGED <<treeVars, dataVars, call, deduplicator, frames, cur, si, ci, t, acc,
                   matchList>>

\* matchSelectors returns false: the traversal goes on
SelectorsExhausted ==
    /\ pc = "selectors"
    /\ si > Len(call.selectors)
    /\ pc' = "traverse"
    /\ UNCHANGED <<treeVars, dataVars, call, deduplicator, frames, cur, si, ti, candidates,
                   ci, t, acc, matchList>>

Complex == call.selectors[si]
Combinator == Complex.tail[ti][1]

\* matchComplexSelector, loop body: the filter leaves no candidate, return false
ComplexFilterEmpty ==
    /\ pc = "complex"
    /\ ti >= 1
    /\ FilterCandidates(candidates, Complex.tail[ti][2]) = <<>>
    /\ si' = si + 1
    /\ pc' = "selectors"
    /\ UNCHANGED <<treeVars, dataVars, call, deduplicator, frames, cur, ti, candidates,
                   ci, t, acc, matchList>>

\* matchComplexSelector, loop body: collectors[Column] throws through the query
ComplexColumn ==
    /\ pc = "complex"
    /\ ti >= 1
    /\ FilterCandidates(candidates, Complex.tail[ti][2]) /= <<>>
    /\ Combinator = "Column"
    /\ pc' = "threw"
    /\ call' = [op |-> call.op, root |-> call.root, selectors |-> call.selectors,
                out |-> IF call.op = "querySelector" THEN Thrown(Null) ELSE Thrown(<<>>)]
    /\ UNCHANGED <<treeVars, dataVars, deduplicator, frames, cur, si, ti, candidates,
                   ci, t, acc, matchList>>

\* matchComplexSelector, loop body: a supported collector is entered
ComplexCollect ==
    /\ pc = "complex"
    /\ ti >= 1
    /\ FilterCandidates(candidates, Complex.tail[ti][2]) /= <<>>
    /\ Combinator \in Supported
    /\ candidates' = FilterCandidates(candidates, Complex.tail[ti][2])
    /\ acc' = <<>>
    /\ deduplicator' = NewWeakSet
    /\ ci' = 1
    /\ pc' = "collect"
    /\ UNCHANGED <<treeVars, dataVars, call, frames, cur, si, ti, t, matchList>>

HeadMatches == Len(FilterCandidates(candidates, Complex.head)) > 0

\* the tail is done and the head matches: querySelector returns cur
ComplexMatchReturn ==
    /\ pc = "complex"
    /\ ti < 1
    /\ HeadMatches
    /\ call.op = "querySelector"
    /\ pc' = "returned"
    /\ call' = [op |-> call.op, root |-> call.root, selectors |-> call.selectors,
                out |-> Returned(cur)]
    /\ UNCHANGED <<treeVars, dataVars, deduplicator, frames, cur, si, ti, candidates,
                   ci, t, acc, matchList>>

\* the tail is done and the head matches: querySelectorAll pushes cur
ComplexMatchPush ==
    /\ pc = "complex"
    /\ ti < 1
    /\ HeadMatches
    /\ call.op = "querySelectorAll"
    /\ matchList' = Append(matchList, cur)
    /\ pc' = "traverse"
    /\ UNCHANGED <<treeVars, dataVars, call, deduplicator, frames, cur, si, ti, candidates,
                   ci, t, acc>>

\* the tail is done and the head does not match: the next member is tried
ComplexHeadFails ==
    /\ pc = "complex"
    /\ ti < 1
    /\ ~HeadMatches
    /\ si' = si + 1
    /\ pc' = "selectors"
    /\ UNCHANGED <<treeVars, dataVars, call, deduplicator, frames, cur, ti, candidates,
                   ci, t, acc, matchList>>

Walks == {"Descendant", "SubsequentSibling"}

\* the step a collector takes from a node: to its parent or to its previous sibling
StepFrom(kind, node) ==
    IF kind \in {"Descendant", "Child"} THEN getParent(node) ELSE getPreviouSibling(node)

\* mutant: the walk also ends on a node it has collected before
WhileUnseen(tt) == tt /= Null /\ tt \notin deduplicator

\* while (t)
WhileCondition(tt) == tt /= Null

\* collector, for loop: Descendant and SubsequentSibling set t and enter the while
CollectEnterWhile ==
    /\ pc = "collect"
    /\ ci <= Len(candidates)
    /\ Combinator \in Walks
    /\ t' = StepFrom(Combinator, candidates[ci])
    /\ pc' = "while"
    /\ UNCHANGED <<treeVars, dataVars, call, deduplicator, frames, cur, si, ti, candidates,
                   ci, acc, matchList>>

\* collector, for loop: Child and NextSibling push the one node, if present
CollectSingle ==
    /\ pc = "collect"
    /\ ci <= Len(candidates)
    /\ Combinator \notin Walks
    /\ LET c == PushIfPresent(StepFrom(Combinator, candidates[ci]),
                              [arr |-> acc, set |-> deduplicator])
       IN  acc' = c.arr /\ deduplicator' = c.set
    /\ ci' = ci + 1
    /\ UNCHANGED <<treeVars, dataVars, call, frames, cur, si, ti, candidates, t, pc,
                   matchList>>

\* collector: the for loop is over, the array becomes the candidates
CollectReturn ==
    /\ pc = "collect"
    /\ ci > Len(candidates)
    /\ candidates' = acc
    /\ ti' = ti - 1
    /\ pc' = "complex"
    /\ UNCHANGED <<treeVars, dataVars, call, deduplicator, frames, cur, si, ci, t, acc,
                   matchList>>

\* while (t) { push unless seen; t = next }
WhileBody ==
    /\ pc = "while"
    /\ WhileCondition(t)
    /\ LET c == PushUnique([arr |-> acc, set |-> deduplicator], t)
       IN  acc' = c.arr /\ deduplicator' = c.set
    /\ t' = StepFrom(Combinator, t)
    /\ UNCHANGED <<treeVars, dataVars, call, frames, cur, si, ti, candidates, ci, pc,
                   matchList>>

\* the while loop ends: the for loop goes to the next candidate
WhileExit ==
    /\ pc = "while"
    /\ ~WhileCondition(t)
    /\ ci' = ci + 1
    /\ pc' = "collect"
    /\ UNCHANGED <<treeVars, dataVars, call, deduplicator, frames, cur, si, ti, candidates,
                   t, acc, matchList>>

RunStep ==
    \/ TraverseYield \/ TraversePop \/ TraverseDone
    \/ SelectorsNext \/ SelectorsExhausted
    \/ ComplexFilterEmpty \/ ComplexColumn \/ ComplexCollect
    \/ ComplexMatchReturn \/ ComplexMatchPush \/ ComplexHeadFails
    \/ CollectEnterWhile \/ CollectSingle \/ CollectReturn
    \/ WhileBody \/ WhileExit

NextStep == StartQuery \/ RunStep

\* a started query keeps executing: the engine is synchronous and never waits
SpecStep == InitStep /\ [][NextStep]_vars /\ WF_vars(RunStep)

\* ---------------------------------------------------------------- C9
\* following getParent from node never ends: the chain enters a cycle
RECURSIVE ChainEnds(_, _)
ChainEnds(node, seen) ==
    IF node = Null THEN TRUE
    ELSE IF node \in seen THEN FALSE
    ELSE ChainEnds(parent[node], seen \cup {node})

EntersCycle(node) == ~ChainEnds(node, {})

AcyclicParents == \A n \in Nodes : ~EntersCycle(n)

Finished == pc \in {"returned", "threw"}

\* the Descendant collection is at a candidate, or at an ancestor, whose
\* getParent chain enters a cycle
InCyclicCollection ==
    /\ pc \in {"collect", "while"}
    /\ Combinator = "Descendant"
    /\ \/ pc = "collect" /\ ci <= Len(candidates) /\ EntersCycle(candidates[ci])
       \/ pc = "while" /\ t /= Null /\ EntersCycle(t)

\* C9: once the Descendant collection is at a candidate whose getParent chain
\* enters a cycle it stays there for ever, so the query neither returns nor
\* raises; with acyclic getParent every started query returns or raises.
C9_CycleLoopsForeverElseTerminates ==
    /\ [][InCyclicCollection => InCyclicCollection']_vars
    /\ [](InCyclicCollection => ~Finished)
    /\ (pc /= "idle" /\ AcyclicParents) ~> Finished

\* C9 witness: the walk is on a node of the cycle that it has collected already
C9_Witness ==
    /\ InCyclicCollection
    /\ pc = "while"
    /\ t \in deduplicator

\* the statement-by-statement run ends with the outcome of the query operators
StepAgreesWithQuery ==
    (Finished /\ AcyclicParents) =>
        call.out = IF call.op = "querySelector"
                   THEN querySelector(call.root, call.selectors)
                   ELSE querySelectorAll(call.root, call.selectors)

====
